---- MODULE Spec2Model ----
(***************************************************************************)
(* A model of DraftEditor (src/component/base/DraftEditor.react.js): the   *)
(* mode dispatch of raw input events, the drag enter/leave counter, the    *)
(* staged clipboard, the focus/scroll restoration and the forced remount   *)
(* of the editor DOM through React's setState.                             *)
(***************************************************************************)
EXTENDS Integers, Sequences, FiniteSets

VARIABLES
    _blockSelectEvents,   \* this._blockSelectEvents
    _clipboard,           \* this._clipboard
    _guardAgainstRender,  \* this._guardAgainstRender
    _handler,             \* this._handler
    _dragCount,           \* this._dragCount
    state,                \* this.state: [containerKey]
    props,                \* this.props: [readOnly, editorState]
    pending,              \* React: setState calls queued, not yet applied
    callbacks,            \* React: setState callbacks of the update in progress
    batching,             \* React: inside batchedUpdates (an event is being handled)
    pc,                   \* "constructed", "idle" or "updating" (render in progress)
    domKey,               \* containerKey of the mounted editorContainer subtree
    scroll,               \* offset of the scroll parent of the editor node
    scrollParent,         \* Style.getScrollParent(editorNode): "window" or "element"
    mode,                 \* history: the mode last passed to setMode
    lastClipboard,        \* history: the value last passed to setClipboard
    balance,              \* history: drag enters not yet matched by a leave
    out                   \* the calls made by the last operation, in order

vars == <<_blockSelectEvents, _clipboard, _guardAgainstRender, _handler,
          _dragCount, state, props, pending, callbacks, batching, pc, domKey,
          scroll, scrollParent, mode, lastClipboard, balance, out>>

(***************************************************************************)
(* Bounds of the model.                                                    *)
(***************************************************************************)
MaxDrag == 2
MaxKey == 1
MaxPending == 2
MaxScroll == 1

(***************************************************************************)
(* Values.                                                                 *)
(***************************************************************************)
\* The keys of handlerMap.
Modes == {"edit", "composite", "drag", "cut", "render"}

\* A key handlerMap does not hold.
UnknownMode == "bogus"

\* handlerMap[mode]: a property lookup, undefined for a key that is absent.
handlerMap(m) ==
    CASE m = "edit" -> "DraftEditorEditHandler"
      [] m = "composite" -> "DraftEditorCompositionHandler"
      [] m = "drag" -> "DraftEditorDragHandler"
      [] m = "cut" -> "null"
      [] m = "render" -> "null"
      [] OTHER -> "undefined"

\* Event names the constructor builds a proxy for (five of the twenty).
EventNames == {"onKeyDown", "onCompositionEnd", "onDrop", "onSelect", "onMouseUp"}

\* The methods each handler module defines, among EventNames.
HandlerMethods(h) ==
    CASE h = "DraftEditorEditHandler" -> {"onKeyDown", "onSelect"}
      [] h = "DraftEditorCompositionHandler" -> {"onKeyDown", "onCompositionEnd"}
      [] h = "DraftEditorDragHandler" -> {"onDrop"}
      [] OTHER -> {}

\* The scrollPosition argument left out.
undefinedPos == [x |-> -1, y |-> -1]

\* Editor states: the selection, whether it has focus, the forceSelection flag.
Selections == {"s1", "s2"}
EditorStates == [selection : Selections, hasFocus : BOOLEAN, forceSelection : BOOLEAN]
NoEditorState == [selection |-> "", hasFocus |-> FALSE, forceSelection |-> FALSE]

\* EditorState.forceSelection(editorState, selection).
forceSelection(es, sel) ==
    [selection |-> sel, hasFocus |-> TRUE, forceSelection |-> TRUE]

\* Block maps staged in the clipboard, and the two empty values of JavaScript.
BlockMaps == {"X", "Y"}
ClipboardValues == BlockMaps \cup {"undefined"}

\* One call in `out`: what is called, a name (mode, event, clipboard value), a
\* scroll position, an editor state and a number, each left empty when unused.
Call(c, nm, p, es, k) == [call |-> c, name |-> nm, pos |-> p, es |-> es, n |-> k]
Plain(c) == Call(c, "", undefinedPos, NoEditorState, -1)
Named(c, nm) == Call(c, nm, undefinedPos, NoEditorState, -1)
At(c, p) == Call(c, "", p, NoEditorState, -1)
With(c, es) == Call(c, "", undefinedPos, es, -1)
Num(c, k) == Call(c, "", undefinedPos, NoEditorState, k)

(***************************************************************************)
(* The constructor: the state before the first mount.                      *)
(***************************************************************************)
InitOver(ROs, ESs, Ps, Parents) ==
    /\ _blockSelectEvents = FALSE
    /\ _clipboard = "null"
    /\ _guardAgainstRender = FALSE
    /\ _handler = "null"
    /\ _dragCount = 0
    /\ state = [containerKey |-> 0]
    /\ props \in [readOnly : ROs, editorState : ESs]
    /\ pending = <<>>
    /\ callbacks = <<>>
    /\ batching = FALSE
    /\ pc = "constructed"
    /\ domKey = 0
    /\ scroll \in Ps
    /\ scrollParent \in Parents
    /\ mode = "unset"
    /\ lastClipboard = "null"
    /\ balance = 0
    /\ out = <<>>

Mounted == pc # "constructed"

reactVars == <<state, pending, callbacks, batching, pc, domKey, _blockSelectEvents>>
modeVars == <<_handler, mode>>
dragVars == <<_dragCount, balance>>
clipVars == <<_clipboard, lastClipboard>>
domVars == <<scroll, scrollParent>>

(***************************************************************************)
(* Mode transitions.                                                       *)
(***************************************************************************)
\* A slip: a mode without a handler leaves the previous handler in place.
SetHandler_KeepsHandler(m) ==
    /\ _handler' = IF handlerMap(m) = "null" THEN _handler ELSE handlerMap(m)
    /\ mode' = m

\* The assignment of _setMode.
SetHandler(m) ==
    /\ _handler' = handlerMap(m)
    /\ mode' = m

_setMode(m) ==
    /\ Mounted
    /\ SetHandler(m)
    /\ out' = <<Named("setMode", m)>>
    /\ UNCHANGED <<reactVars, dragVars, clipVars, domVars, props, _guardAgainstRender>>

\* A slip: leaving a mode discards the staged clipboard.
_exitCurrentMode_DropsClipboard ==
    /\ Mounted
    /\ SetHandler("edit")
    /\ _clipboard' = "null"
    /\ out' = <<Plain("exitCurrentMode"), Named("setMode", "edit")>>
    /\ UNCHANGED <<reactVars, dragVars, lastClipboard, domVars, props,
                   _guardAgainstRender>>

_exitCurrentMode ==
    /\ Mounted
    /\ SetHandler("edit")
    /\ out' = <<Plain("exitCurrentMode"), Named("setMode", "edit")>>
    /\ UNCHANGED <<reactVars, dragVars, clipVars, domVars, props, _guardAgainstRender>>

componentDidMount ==
    /\ pc = "constructed"
    /\ pc' = "idle"
    /\ SetHandler("edit")
    /\ out' = <<Plain("componentDidMount"), Named("setMode", "edit")>>
    /\ UNCHANGED <<state, pending, callbacks, batching, domKey, _blockSelectEvents,
                   dragVars, clipVars, domVars, props, _guardAgainstRender>>

(***************************************************************************)
(* The event proxies built by _buildHandler.  React delivers an event      *)
(* inside a batch of updates.                                              *)
(***************************************************************************)
\* A slip: the proxy looks the method up on the handler of the constructor,
\* which is null, rather than on the handler at the time of the event.
Method_OfConstructor(eventName) ==
    eventName \in HandlerMethods("null")

\* this._handler && this._handler[eventName]
Method(eventName) ==
    IF _handler \in {"null", "undefined"} THEN FALSE
    ELSE eventName \in HandlerMethods(_handler)

\* A slip: the proxy does not look at readOnly.
ProxyCalls_IgnoresReadOnly(eventName) ==
    IF Method(eventName) THEN <<Named(_handler, eventName)>> ELSE <<>>

\* The calls of the proxy for eventName.
ProxyCalls(eventName) ==
    IF ~props.readOnly /\ Method(eventName)
    THEN <<Named(_handler, eventName)>>
    ELSE <<>>

_buildHandler(eventName) ==
    /\ Mounted
    /\ batching' = TRUE
    /\ out' = <<Named("dispatch", eventName)>> \o ProxyCalls(eventName)
    /\ UNCHANGED <<state, pending, callbacks, pc, domKey, _blockSelectEvents,
                   modeVars, dragVars, clipVars, domVars, props, _guardAgainstRender>>

(***************************************************************************)
(* The drag counter.                                                       *)
(***************************************************************************)
_onDragEnter ==
    /\ Mounted
    /\ _dragCount' = _dragCount + 1
    /\ balance' = balance + 1
    /\ batching' = TRUE
    /\ out' = <<Plain("onDragEnter")>>
    /\ UNCHANGED <<state, pending, callbacks, pc, domKey, _blockSelectEvents,
                   modeVars, clipVars, domVars, props, _guardAgainstRender>>

\* A slip: the leave is counted, and the mode left, only while editable, as
\* if the callback were built by _buildHandler.
_onDragLeave_WhenEditable ==
    /\ Mounted
    /\ _dragCount' = IF props.readOnly THEN _dragCount ELSE _dragCount - 1
    /\ balance' = IF balance > 0 THEN balance - 1 ELSE 0
    /\ batching' = TRUE
    /\ IF ~props.readOnly /\ _dragCount' = 0
       THEN /\ SetHandler("edit")
            /\ out' = <<Plain("onDragLeave"), Plain("exitCurrentMode"),
                        Named("setMode", "edit")>>
       ELSE /\ UNCHANGED modeVars
            /\ out' = <<Plain("onDragLeave")>>
    /\ UNCHANGED <<state, pending, callbacks, pc, domKey, _blockSelectEvents,
                   clipVars, domVars, props, _guardAgainstRender>>

_onDragLeave ==
    /\ Mounted
    /\ _dragCount' = _dragCount - 1
    /\ balance' = IF balance > 0 THEN balance - 1 ELSE 0
    /\ batching' = TRUE
    /\ IF _dragCount' = 0
       THEN /\ SetHandler("edit")
            /\ out' = <<Plain("onDragLeave"), Plain("exitCurrentMode"),
                        Named("setMode", "edit")>>
       ELSE /\ UNCHANGED modeVars
            /\ out' = <<Plain("onDragLeave")>>
    /\ UNCHANGED <<state, pending, callbacks, pc, domKey, _blockSelectEvents,
                   clipVars, domVars, props, _guardAgainstRender>>

(***************************************************************************)
(* The staged clipboard.                                                   *)
(***************************************************************************)
_setClipboard(clipboard) ==
    /\ Mounted
    /\ _clipboard' = clipboard
    /\ lastClipboard' = clipboard
    /\ out' = <<Named("setClipboard", clipboard)>>
    /\ UNCHANGED <<reactVars, modeVars, dragVars, domVars, props, _guardAgainstRender>>

\* A slip: reading the clipboard consumes it.
_getClipboard_Clears ==
    /\ Mounted
    /\ out' = <<Named("getClipboard", _clipboard)>>
    /\ _clipboard' = "null"
    /\ UNCHANGED <<reactVars, modeVars, dragVars, lastClipboard, domVars, props,
                   _guardAgainstRender>>

_getClipboard ==
    /\ Mounted
    /\ out' = <<Named("getClipboard", _clipboard)>>
    /\ UNCHANGED <<reactVars, modeVars, dragVars, clipVars, domVars, props,
                   _guardAgainstRender>>

(***************************************************************************)
(* The render guard.                                                       *)
(***************************************************************************)
\* A slip: setting the render guard also enters render mode.
_setRenderGuard_EntersRender ==
    /\ Mounted
    /\ _guardAgainstRender' = TRUE
    /\ SetHandler("render")
    /\ out' = <<Plain("setRenderGuard")>>
    /\ UNCHANGED <<reactVars, dragVars, clipVars, domVars, props>>

_setRenderGuard ==
    /\ Mounted
    /\ _guardAgainstRender' = TRUE
    /\ out' = <<Plain("setRenderGuard")>>
    /\ UNCHANGED <<reactVars, modeVars, dragVars, clipVars, domVars, props>>

_removeRenderGuard ==
    /\ Mounted
    /\ _guardAgainstRender' = FALSE
    /\ out' = <<Plain("removeRenderGuard")>>
    /\ UNCHANGED <<reactVars, modeVars, dragVars, clipVars, domVars, props>>

(***************************************************************************)
(* update, focus and blur.                                                 *)
(***************************************************************************)
\* A slip: no onChange while the render guard is set.
UpdateCalls_HeldByGuard(editorState) ==
    IF _guardAgainstRender
    THEN <<With("update", editorState)>>
    ELSE <<With("update", editorState), With("onChange", editorState)>>

\* The calls of _update(editorState).
UpdateCalls(editorState) ==
    <<With("update", editorState), With("onChange", editorState)>>

_update(editorState) ==
    /\ Mounted
    /\ out' = UpdateCalls(editorState)
    /\ UNCHANGED <<reactVars, modeVars, dragVars, clipVars, domVars, props,
                   _guardAgainstRender>>

\* scrollPosition || getScrollPosition(scrollParent), cur being the offset of
\* the scroll parent when _focus starts.
ScrollTarget(scrollPosition, cur) ==
    IF scrollPosition # undefinedPos THEN scrollPosition ELSE cur

\* The offset of the scroll parent after editorNode.focus(): the browser may
\* scroll the node into view (to `jump`) or leave the offset (undefinedPos).
AfterNativeFocus(cur, jump) ==
    IF jump = undefinedPos THEN cur ELSE jump

\* The offset of the scroll parent when _focus returns: editorNode.focus(),
\* then window.scrollTo(x, y) or Scroll.setTop(scrollParent, y).
ScrollAfterFocus(scrollPosition, cur, jump) ==
    LET t == ScrollTarget(scrollPosition, cur)
        jumped == AfterNativeFocus(cur, jump)
    IN  IF scrollParent = "window"
        THEN [x |-> t.x, y |-> t.y]
        ELSE [x |-> jumped.x, y |-> t.y]

\* The scroll call of _focus.
RestoreScrollCall(t) ==
    IF scrollParent = "window"
    THEN At("window.scrollTo", t)
    ELSE Num("Scroll.setTop", t.y)

\* A slip: the selection is forced whether or not it had focus.
FocusCalls_AlwaysForces(scrollPosition, cur) ==
    <<At("focus", scrollPosition), Plain("editorNode.focus"),
      RestoreScrollCall(ScrollTarget(scrollPosition, cur))>>
    \o UpdateCalls(forceSelection(props.editorState, props.editorState.selection))

\* The calls of _focus(scrollPosition), in order.
FocusCalls(scrollPosition, cur) ==
    LET editorState == props.editorState
        alreadyHasFocus == editorState.hasFocus
    IN  <<At("focus", scrollPosition), Plain("editorNode.focus"),
          RestoreScrollCall(ScrollTarget(scrollPosition, cur))>>
        \o (IF ~alreadyHasFocus
            THEN UpdateCalls(forceSelection(editorState, editorState.selection))
            ELSE <<>>)

_focus(scrollPosition, jump) ==
    /\ Mounted
    /\ scroll' = ScrollAfterFocus(scrollPosition, scroll, jump)
    /\ out' = FocusCalls(scrollPosition, scroll)
    /\ UNCHANGED <<reactVars, modeVars, dragVars, clipVars, scrollParent, props,
                   _guardAgainstRender>>

_blur ==
    /\ Mounted
    /\ out' = <<Plain("blur"), Plain("editorNode.blur")>>
    /\ UNCHANGED <<reactVars, modeVars, dragVars, clipVars, domVars, props,
                   _guardAgainstRender>>

(***************************************************************************)
(* The forced remount.  React applies a setState at once outside a batch   *)
(* and at the end of the batch inside one; this.state keeps its old value  *)
(* until then.  An update runs componentWillUpdate, assigns the state,     *)
(* renders, runs componentDidUpdate and then the setState callbacks.       *)
(***************************************************************************)
\* A slip: componentWillUpdate does not block the select events.
StartUpdate_NoBlock(queue) ==
    /\ UNCHANGED _blockSelectEvents
    /\ state' = IF queue = <<>> THEN state
                ELSE [containerKey |-> queue[Len(queue)].containerKey]
    /\ callbacks' = [i \in 1..Len(queue) |-> queue[i].callback]
    /\ pending' = <<>>
    /\ pc' = "updating"
    /\ batching' = TRUE

\* componentWillUpdate, then the queued states merged into this.state.
StartUpdate(queue) ==
    /\ _blockSelectEvents' = TRUE
    /\ state' = IF queue = <<>> THEN state
                ELSE [containerKey |-> queue[Len(queue)].containerKey]
    /\ callbacks' = [i \in 1..Len(queue) |-> queue[i].callback]
    /\ pending' = <<>>
    /\ pc' = "updating"
    /\ batching' = TRUE

\* A slip: the key is lowered.
NextContainerKey_Lowered == state.containerKey - 1

\* The argument of setState in _restoreEditorDOM.
NextContainerKey == state.containerKey + 1

_restoreEditorDOM(scrollPosition) ==
    /\ Mounted
    /\ LET queue == Append(pending, [containerKey |-> NextContainerKey,
                                     callback |-> scrollPosition])
       IN  IF batching
           THEN /\ pending' = queue
                /\ UNCHANGED <<state, callbacks, pc, batching, _blockSelectEvents>>
           ELSE StartUpdate(queue)
    /\ out' = <<At("restoreEditorDOM", scrollPosition), Num("setState", NextContainerKey)>>
    /\ UNCHANGED <<domKey, modeVars, dragVars, clipVars, domVars, props,
                   _guardAgainstRender>>

\* React closes the batch: the queued setState calls, if any, are applied.
batchedUpdatesClose ==
    /\ pc = "idle"
    /\ batching
    /\ IF pending = <<>>
       THEN /\ batching' = FALSE
            /\ UNCHANGED <<state, pending, callbacks, pc, _blockSelectEvents>>
       ELSE StartUpdate(pending)
    /\ out' = <<Plain("batchedUpdatesClose")>>
    /\ UNCHANGED <<domKey, modeVars, dragVars, clipVars, domVars, props,
                   _guardAgainstRender>>

\* The host renders the editor with new props.
receiveProps(readOnly, editorState) ==
    /\ pc = "idle"
    /\ ~batching
    /\ props' = [readOnly |-> readOnly, editorState |-> editorState]
    /\ StartUpdate(<<>>)
    /\ out' = <<Plain("receiveProps")>>
    /\ UNCHANGED <<domKey, modeVars, dragVars, clipVars, domVars, _guardAgainstRender>>

\* A slip: the callback is () => this._focus(), without the scroll position.
RECURSIVE RunCallbacks_NoPosition(_, _, _)
RunCallbacks_NoPosition(cbs, jumps, cur) ==
    IF cbs = <<>> THEN [scroll |-> cur, out |-> <<>>]
    ELSE LET rest == RunCallbacks_NoPosition(Tail(cbs), Tail(jumps),
                         ScrollAfterFocus(undefinedPos, cur, Head(jumps)))
         IN  [scroll |-> rest.scroll,
              out |-> FocusCalls(undefinedPos, cur) \o rest.out]

\* The setState callbacks, each () => this._focus(scrollPosition), in order;
\* jumps[i] is the scroll the i-th editorNode.focus() causes.
RECURSIVE RunCallbacks(_, _, _)
RunCallbacks(cbs, jumps, cur) ==
    IF cbs = <<>> THEN [scroll |-> cur, out |-> <<>>]
    ELSE LET rest == RunCallbacks(Tail(cbs), Tail(jumps),
                                  ScrollAfterFocus(Head(cbs), cur, Head(jumps)))
         IN  [scroll |-> rest.scroll,
              out |-> FocusCalls(Head(cbs), cur) \o rest.out]

\* The subtree keyed 'editor' + containerKey is mounted, componentDidUpdate
\* runs, then the callbacks of the setState calls just applied.
componentDidUpdate(jumps) ==
    /\ pc = "updating"
    /\ domKey' = state.containerKey
    /\ _blockSelectEvents' = FALSE
    /\ LET run == RunCallbacks(callbacks, jumps, scroll)
       IN  /\ scroll' = run.scroll
           /\ out' = <<Plain("componentDidUpdate")>> \o run.out
    /\ callbacks' = <<>>
    /\ pc' = "idle"
    /\ batching' = (pending # <<>>)
    /\ UNCHANGED <<state, pending, scrollParent, modeVars, dragVars, clipVars, props,
                   _guardAgainstRender>>

(***************************************************************************)
(* The operations, grouped, over given sets of inputs.  The bounds stop    *)
(* the counters: the drag counter within -MaxDrag..MaxDrag, containerKey   *)
(* at MaxKey, and MaxPending setState calls queued at a time.              *)
(***************************************************************************)
ModeOps(Ms) ==
    \/ \E m \in Ms : _setMode(m)
    \/ _exitCurrentMode

DispatchOps(Es) ==
    \E e \in Es : _buildHandler(e)

DragOps ==
    \/ _dragCount < MaxDrag /\ _onDragEnter
    \/ _dragCount > -MaxDrag /\ _onDragLeave

ClipboardOps(Cs) ==
    \/ \E c \in Cs : _setClipboard(c)
    \/ _getClipboard

GuardOps ==
    \/ _setRenderGuard
    \/ _removeRenderGuard

UpdateOps(ESs) ==
    \E es \in ESs : _update(es)

FocusOps(Ss, Ps) ==
    \/ \E sp \in Ss, j \in Ps : _focus(sp, j)
    \/ _blur

RemountOps(Ss) ==
    \E sp \in Ss :
        /\ Len(pending) < MaxPending
        /\ state.containerKey < MaxKey
        /\ _restoreEditorDOM(sp)

ReactOps(ROs, ESs, Ps) ==
    \/ batchedUpdatesClose
    \/ \E ro \in ROs, es \in ESs : receiveProps(ro, es)
    \/ \E js \in [1..Len(callbacks) -> Ps] : componentDidUpdate(js)

\* The inputs the specifications draw from.
Origin == [x |-> 0, y |-> 0]
Blurred == [selection |-> "s1", hasFocus |-> FALSE, forceSelection |-> FALSE]
AllModes == Modes \cup {UnknownMode}

(***************************************************************************)
(* Spec: every operation, with every mode and event, over one editor       *)
(* state, one clipboard value and one scroll position.                     *)
(***************************************************************************)
Init == InitOver(BOOLEAN, {Blurred}, {Origin}, {"window"})
Next ==
    \/ componentDidMount
    \/ ModeOps(AllModes)
    \/ DispatchOps(EventNames)
    \/ DragOps
    \/ ClipboardOps({"X"})
    \/ GuardOps
    \/ UpdateOps({Blurred})
    \/ FocusOps({undefinedPos}, {Origin})
    \/ RemountOps({undefinedPos})
    \/ ReactOps(BOOLEAN, {Blurred}, {Origin})
Spec == Init /\ [][Next]_vars

(***************************************************************************)
(* SpecFocus: focus, blur and the forced remount, between the origin and   *)
(* the offset (MaxScroll, MaxScroll), with either scroll parent and with   *)
(* editor states of either selection,                                      *)
(* focused or not.  The mode, the drag counter and the clipboard rest.     *)
(***************************************************************************)
Corner == [x |-> MaxScroll, y |-> MaxScroll]
Jumps == {undefinedPos, Origin, Corner}
Targets == {undefinedPos, Origin, Corner}
PropStates == [selection : Selections, hasFocus : BOOLEAN, forceSelection : {FALSE}]

InitFocus == InitOver({FALSE}, PropStates, {Origin, Corner}, {"window", "element"})
NextFocus ==
    \/ componentDidMount
    \/ DispatchOps({"onKeyDown"})
    \/ FocusOps(Targets, Jumps)
    \/ RemountOps({undefinedPos, Corner})
    \/ ReactOps({FALSE}, PropStates, Jumps)
SpecFocus == InitFocus /\ [][NextFocus]_vars

(***************************************************************************)
(* SpecUpdate: update, and focus which calls it, in every mode, with the   *)
(* render guard, readOnly and the update cycle varying.                    *)
(***************************************************************************)
InitUpdate == InitOver(BOOLEAN, PropStates, {Origin}, {"window"})
NextUpdate ==
    \/ componentDidMount
    \/ ModeOps(Modes)
    \/ DispatchOps({"onKeyDown"})
    \/ GuardOps
    \/ UpdateOps(EditorStates)
    \/ FocusOps({undefinedPos}, {Origin})
    \/ ReactOps(BOOLEAN, PropStates, {Origin})
SpecUpdate == InitUpdate /\ [][NextUpdate]_vars

(***************************************************************************)
(* SpecClipboard: every operation, over every clipboard value.             *)
(***************************************************************************)
InitClipboard == InitOver({FALSE}, {Blurred}, {Origin}, {"window"})
NextClipboard ==
    \/ componentDidMount
    \/ ModeOps({"cut"})
    \/ DispatchOps({"onKeyDown"})
    \/ DragOps
    \/ ClipboardOps(ClipboardValues)
    \/ GuardOps
    \/ UpdateOps({Blurred})
    \/ FocusOps({undefinedPos}, {Origin})
    \/ RemountOps({undefinedPos})
    \/ ReactOps({FALSE}, {Blurred}, {Origin})
SpecClipboard == InitClipboard /\ [][NextClipboard]_vars

(***************************************************************************)
(* Properties.                                                             *)
(***************************************************************************)
HandlerModules ==
    {"DraftEditorEditHandler", "DraftEditorCompositionHandler", "DraftEditorDragHandler"}

\* The operation that ran last.
LastOp == IF out = <<>> THEN "" ELSE out[1].call

\* The calls of `o` to `c`.
CallsTo(o, c) == {i \in 1..Len(o) : o[i].call = c}

\* C1: after any operation, _handler is the registry entry of the mode last
\* set (edit, composite, drag: their module; cut, render: none), and none
\* before any mode is set.
C1_HandlerOfLastMode ==
    /\ mode = "unset" => _handler = "null"
    /\ mode = "edit" => _handler = "DraftEditorEditHandler"
    /\ mode = "composite" => _handler = "DraftEditorCompositionHandler"
    /\ mode = "drag" => _handler = "DraftEditorDragHandler"
    /\ mode \in {"cut", "render"} => _handler = "null"

\* C1 witness: cut was set while a drag was counted and setState was queued.
C1_Witness ==
    /\ LastOp = "setMode"
    /\ mode = "cut"
    /\ _handler = "null"
    /\ _dragCount > 0
    /\ pending # <<>>

\* C2: a proxy called while readOnly calls no handler method, whatever the
\* event and the mode.
C2_ReadOnlyCallsNoHandler ==
    (LastOp = "dispatch" /\ props.readOnly) =>
        \A i \in 1..Len(out) : out[i].call \notin HandlerModules

\* C2 witness: readOnly, and the active handler defines the event's method.
C2_Witness ==
    /\ LastOp = "dispatch"
    /\ props.readOnly
    /\ Method(out[1].name)
    /\ Len(out) = 1

\* C3: over any sequence of onDragEnter and onDragLeave, exitCurrentMode is
\* called exactly when a leave closes a balanced run of enters and leaves,
\* and never by a call that leaves the counter above zero.
C3_ExitOncePerBalancedRun ==
    [][out'[1].call \in {"onDragEnter", "onDragLeave"} =>
        /\ (CallsTo(out', "exitCurrentMode") # {}) <=>
               (out'[1].call = "onDragLeave" /\ balance = 1)
        /\ Cardinality(CallsTo(out', "exitCurrentMode")) <= 1
        /\ (CallsTo(out', "exitCurrentMode") # {}) => ~(_dragCount' > 0)]_vars

\* C4: the drag counter is never negative.
C4_DragCountNeverNegative == _dragCount >= 0

\* C5: every restoreEditorDOM call raises containerKey by 1: the update that
\* applies n queued calls raises it by n.
C5_EachRestoreAddsOne ==
    [][(pc = "idle" /\ pc' = "updating") =>
        state'.containerKey = state.containerKey + Len(callbacks')]_vars

\* The scroll positions of the restoreEditorDOM calls whose focus has not
\* run yet, oldest first.
Owed == callbacks \o [i \in 1..Len(pending) |-> pending[i].callback]

IsFocusCall(c) == c.call = "focus"

\* The scroll positions `o` calls focus with, in order.
FocusArgs(o) ==
    LET f == SelectSeq(o, IsFocusCall) IN [i \in 1..Len(f) |-> f[i].pos]

\* C6: restoreEditorDOM(scrollPosition) does not focus before its update is
\* applied: focus runs once per call, with the call's scrollPosition, in the
\* order of the calls, and only when the subtree mounted has the raised key.
C6_FocusAfterRemountOncePerCall ==
    [][LET called == IF out'[1].call = "restoreEditorDOM" THEN <<out'[1].pos>> ELSE <<>>
           focused == IF out'[1].call = "focus" THEN <<>> ELSE FocusArgs(out')
       IN  /\ Owed \o called = focused \o Owed'
           /\ focused # <<>> =>
                  /\ domKey' = state'.containerKey
                  /\ domKey' > domKey]_vars

\* C6 witness: one update has run the focus of two restoreEditorDOM calls,
\* each with its own scroll position.
C6_Witness ==
    /\ LastOp = "componentDidUpdate"
    /\ FocusArgs(out) = <<Corner, undefinedPos>>
    /\ domKey = state.containerKey
    /\ domKey > 0

\* The calls of `o` after the focus call at i, up to the next focus call.
FocusSegment(o, i) ==
    {j \in (i + 1)..Len(o) : \A k \in (i + 1)..j : o[k].call # "focus"}

\* C7: a focus call makes one update call, of the editor state with its own
\* selection forced, when the selection had no focus, and none when it had;
\* the update comes after the native focus and the scroll call.
C7_FocusForcesSelectionOnce ==
    \A i \in CallsTo(out, "focus") :
        LET seg == FocusSegment(out, i)
            updates == {j \in seg : out[j].call = "update"}
        IN  /\ Cardinality(updates) = IF props.editorState.hasFocus THEN 0 ELSE 1
            /\ \A j \in updates :
                   /\ out[j].es.forceSelection
                   /\ out[j].es.selection = props.editorState.selection
                   /\ \E a, b \in seg :
                          /\ a < b /\ b < j
                          /\ out[a].call = "editorNode.focus"
                          /\ out[b].call \in {"window.scrollTo", "Scroll.setTop"}

\* C7 witness: focus was called with a selection that had no focus.
C7_Witness ==
    /\ LastOp = "focus"
    /\ ~props.editorState.hasFocus
    /\ props.editorState.selection = "s2"
    /\ Cardinality(CallsTo(out, "update")) = 1

\* C8: when focus(scrollPosition) returns, the scroll parent is at
\* scrollPosition if given, else at the offset it had when focus was called,
\* in x and in y, whether the scroll parent is the window or an element.
C8_FocusRestoresScroll ==
    [][out'[1].call = "focus" =>
        scroll' = IF out'[1].pos # undefinedPos THEN out'[1].pos ELSE scroll]_vars

\* C9: getClipboard returns the value of the last setClipboard, undefined
\* included, and leaves it staged.
C9_ClipboardLastWriteWins ==
    /\ LastOp = "getClipboard" => out[1].name = lastClipboard
    /\ LastOp = "setClipboard" => out[1].name = lastClipboard
    /\ _clipboard = lastClipboard

\* C9 witness: a read returned undefined, staged by the last setClipboard.
C9_Witness ==
    /\ LastOp = "getClipboard"
    /\ out[1].name = "undefined"
    /\ lastClipboard = "undefined"

\* C10: every update call is followed at once by one onChange call with the
\* same editor state, and onChange is called by nothing else.
C10_UpdateCallsOnChangeOnce ==
    /\ \A i \in CallsTo(out, "update") :
           /\ i < Len(out)
           /\ out[i + 1].call = "onChange"
           /\ out[i + 1].es = out[i].es
    /\ \A i \in CallsTo(out, "onChange") :
           /\ i > 1
           /\ out[i - 1].call = "update"

\* C10 witness: update was called in a mode without handler, readOnly, with
\* the render guard set and select events blocked.
C10_Witness ==
    /\ LastOp = "update"
    /\ out[1].es.selection = "s2"
    /\ mode = "render"
    /\ props.readOnly
    /\ _guardAgainstRender
    /\ _blockSelectEvents

\* C11: the drag counter belongs to one gesture: when a gesture ends, by a
\* leave that brings the counter to zero or by exitCurrentMode or setMode
\* leaving drag mode, _dragCount is 0.
C11_DragCountZeroWhenGestureEnds ==
    [][/\ (out'[1].call = "onDragLeave" /\ CallsTo(out', "exitCurrentMode") # {})
           => _dragCount' = 0
       /\ (out'[1].call \in {"exitCurrentMode", "setMode"}
              /\ mode = "drag" /\ mode' # "drag")
           => _dragCount' = 0]_vars

\* The calls `o` makes to handler modules, in order.
IsHandlerCall(c) == c.call \in HandlerModules
HandlerCalls(o) == SelectSeq(o, IsHandlerCall)

\* C12: while not readOnly, the proxy of an event calls the method named like
\* the event on the handler of the mode set when the event arrives, once, if
\* that handler defines it; it calls nothing for a handler without it and in
\* cut and render mode; the mode is as it was when the proxy returns.
C12_DispatchToHandlerOfCurrentMode ==
    [][(out'[1].call = "dispatch" /\ ~props.readOnly) =>
        LET eventName == out'[1].name
            module == handlerMap(mode)
        IN  /\ HandlerCalls(out') =
                   IF mode \in {"edit", "composite", "drag"}
                      /\ eventName \in HandlerMethods(module)
                   THEN <<Named(module, eventName)>>
                   ELSE <<>>
            /\ Len(out') = 1 + Len(HandlerCalls(out'))
            /\ mode \in {"cut", "render"} => Len(out') = 1
            /\ UNCHANGED modeVars]_vars

\* C12 witness: in composite mode, set after the mount, onCompositionEnd was
\* dispatched to the composition handler during an update.
C12_Witness ==
    /\ LastOp = "dispatch"
    /\ ~props.readOnly
    /\ mode = "composite"
    /\ out = <<Named("dispatch", "onCompositionEnd"),
               Named("DraftEditorCompositionHandler", "onCompositionEnd")>>
    /\ pc = "updating"

\* C13: in drag mode, the leave that matches the last enter still unmatched
\* ends the gesture with the mode edit; a leave after which the counter is
\* still above zero keeps the mode drag.
C13_BalancedGestureEndsInEdit ==
    [][(out'[1].call = "onDragLeave" /\ mode = "drag") =>
        /\ balance = 1 => mode' = "edit"
        /\ _dragCount' > 0 => mode' = "drag"]_vars

\* C14: containerKey is 0 after construction and never decreases; it changes
\* only when a setState of restoreEditorDOM is applied, at once or when the
\* batch closes, and restoreEditorDOM alone queues a setState.
C14_ContainerKeyOnlyRaisedByRestore ==
    [][/\ pc = "constructed" => state.containerKey = 0
       /\ state'.containerKey >= state.containerKey
       /\ state'.containerKey # state.containerKey =>
              \/ out'[1].call = "restoreEditorDOM"
              \/ out'[1].call = "batchedUpdatesClose" /\ pending # <<>>
       /\ Len(pending') > Len(pending) => out'[1].call = "restoreEditorDOM"]_vars

\* C14 witness: the key was raised when the batch closed, in cut mode, with
\* a drag counted and a block map staged.
C14_Witness ==
    /\ LastOp = "batchedUpdatesClose"
    /\ state.containerKey = 1
    /\ domKey = 0
    /\ mode = "cut"
    /\ _dragCount # 0
    /\ _clipboard = "Y"

\* C16: _blockSelectEvents is false after construction, true from
\* componentWillUpdate to the next componentDidUpdate and false otherwise;
\* it changes in no step other than these two.
C16_BlockedExactlyDuringUpdate ==
    [][/\ pc = "constructed" => ~_blockSelectEvents
       /\ _blockSelectEvents' <=> pc' = "updating"
       /\ _blockSelectEvents' # _blockSelectEvents =>
              IF _blockSelectEvents'
              THEN pc = "idle" /\ pc' = "updating"
              ELSE out'[1].call = "componentDidUpdate"]_vars

\* C16 witness: select events are blocked, and a drag enter during the
\* update left them blocked.
C16_Witness ==
    /\ LastOp = "onDragEnter"
    /\ _blockSelectEvents
    /\ pc = "updating"
    /\ state.containerKey = 1

\* C17: _clipboard changes in setClipboard alone.
C17_ClipboardChangedBySetClipboardOnly ==
    [][_clipboard' # _clipboard => out'[1].call = "setClipboard"]_vars

\* C17 witness: a block map staged before the remount is still staged after
\* it, in edit mode left by a drag leave, with the render guard set.
C17_Witness ==
    /\ LastOp = "componentDidUpdate"
    /\ CallsTo(out, "focus") # {}
    /\ _clipboard = "Y"
    /\ domKey = 1
    /\ mode = "edit"
    /\ balance > 0
    /\ _guardAgainstRender

\* C15: the mode is edit when componentDidMount returns; from then on the
\* mode is one of the five keys of handlerMap and _handler is its entry;
\* exitCurrentMode ends as setMode('edit') does, whatever the mode was.
C15_EditAfterMountOneModeOfSet ==
    /\ LastOp = "componentDidMount" => mode = "edit"
    /\ Mounted => mode \in Modes /\ _handler # "undefined"
    /\ LastOp = "exitCurrentMode" =>
           /\ mode = "edit"
           /\ _handler = handlerMap("edit")
           /\ out[2] = Named("setMode", "edit")

\* C18: setMode with a mode that is no key of handlerMap does not change
\* _handler, and the controller takes no step after it.
C18_UnknownModeIsFatal ==
    [][/\ (out'[1].call = "setMode" /\ out'[1].name \notin Modes)
           => _handler' = _handler
       /\ mode \in Modes \cup {"unset"}]_vars

\* C19: onDragEnter and onDragLeave can be called whenever the editor is
\* mounted, in any mode and readOnly or not; they add 1 to, and take 1 from,
\* _dragCount; the leave that makes it 0 sets edit mode, whatever the mode
\* was, and any other leave keeps the mode.
C19_DragCallbacksBypassProxy ==
    /\ [](Mounted => ENABLED _onDragEnter /\ ENABLED _onDragLeave)
    /\ [][/\ out'[1].call = "onDragEnter" =>
              /\ _dragCount' = _dragCount + 1
              /\ UNCHANGED modeVars
          /\ out'[1].call = "onDragLeave" =>
              /\ _dragCount' = _dragCount - 1
              /\ IF _dragCount = 1
                 THEN /\ mode' = "edit"
                      /\ _handler' = "DraftEditorEditHandler"
                      /\ CallsTo(out', "exitCurrentMode") = {2}
                 ELSE UNCHANGED modeVars]_vars

\* C19 witness: while readOnly, a leave brought the counter to 0 and set
\* edit mode, during an update.
C19_Witness ==
    /\ LastOp = "onDragLeave"
    /\ props.readOnly
    /\ _dragCount = 0
    /\ out[3] = Named("setMode", "edit")
    /\ _handler = "DraftEditorEditHandler"
    /\ pc = "updating"

\* C20: setRenderGuard sets and removeRenderGuard clears _guardAgainstRender,
\* whatever it was, and change nothing else; a proxy and update make the
\* calls the mode, readOnly and the editor state determine, whatever the flag.
C20_RenderGuardChangesFlagOnly ==
    [][/\ out'[1].call \in {"setRenderGuard", "removeRenderGuard"} =>
               /\ _guardAgainstRender' = (out'[1].call = "setRenderGuard")
               /\ Len(out') = 1
               /\ UNCHANGED <<_handler, _dragCount, _clipboard, state,
                              _blockSelectEvents, mode, pending, props>>
       /\ _guardAgainstRender' # _guardAgainstRender =>
               out'[1].call \in {"setRenderGuard", "removeRenderGuard"}
       /\ out'[1].call = "dispatch" =>
               (Len(out') = 2 <=> /\ ~props.readOnly
                                  /\ out'[1].name \in HandlerMethods(handlerMap(mode)))
       /\ out'[1].call = "update" =>
               /\ Len(out') = 2
               /\ out'[2] = With("onChange", out'[1].es)]_vars

\* C20 witness: the render guard was set during the update of a remount, a
\* drag counted and a block map staged, and the edit handler is still active.
C20_Witness ==
    /\ LastOp = "setRenderGuard"
    /\ _guardAgainstRender
    /\ _handler = "DraftEditorEditHandler"
    /\ _dragCount = 1
    /\ _clipboard = "X"
    /\ state.containerKey = 1
    /\ _blockSelectEvents

====
